---- MODULE Spec2Model ----
(***************************************************************************)
(* A model of goidgames: the idgames metadata client (Get, Search,         *)
(* LatestFiles), the search aggregation (SearchMultipleTypes), the mirror  *)
(* download (Idgame.DownloadTo with its WriteCounter) and the terminal     *)
(* browser (IdgamesBrowser) with its detail backfill (updateGameDetails).  *)
(*                                                                         *)
(* Five specifications share the variables:                                *)
(*   DownloadSpec  one or more calls of Idgame.DownloadTo                  *)
(*   SearchSpec    single calls of Search, LatestFiles and Get             *)
(*   AggSpec       calls of SearchMultipleTypes                            *)
(*   Spec          the browser's result list: the UI loop, its queued      *)
(*                 closures and the backfill goroutines                    *)
(*   BrowserSpec   Spec with the callbacks, Enter on a row and the page    *)
(*                 that asks before a download; here Get is also answered *)
(*                 with bodies it cannot decode                            *)
(***************************************************************************)
EXTENDS Integers, Sequences, FiniteSets, TLC

VARIABLES
    \* ---- Idgame.DownloadTo ----
    Mirrors,      \* the package variable Mirrors: the ordered mirror list
    dlPc,         \* position of the call: idle, mkdir, loop, create, copy, after, ret
    dlCalls,      \* number of DownloadTo calls started
    dlPath,       \* the argument path (destination directory)
    gFilename,    \* g.Filename of the receiver
    dlIdx,        \* position of the range loop in Mirrors (1-based)
    success,      \* the local success
    filePath,     \* the named result filePath
    body,         \* bytes of resp.Body not yet read
    wcTotal,      \* counter.Total of the WriteCounter of the current mirror
    dirExists,    \* whether the destination directory exists
    file,         \* content of path/Filename: the bytes, each tagged with its mirror
    fileExists,   \* whether path/Filename exists
    dlRet,        \* what the last call returned: [path, err]
    attempts,     \* log: the mirrors http.Get was issued to, in order (this call)
    published,    \* log: what PrintProgress published, in order (this call):
                  \* [mirror, total], the total printed and the mirror being copied
    creates,      \* log: number of os.Create calls (this call)
    \* ---- Search, LatestFiles, Get ----
    sPc,          \* position of the call: idle; of Search: get, ret; of
                  \* LatestFiles: lget, lret; of Get: gget, gret
    sQuery,       \* the argument query: its characters, each the number of
                  \* bytes of its UTF-8 encoding
    sRet,         \* what the last call returned: [idgames, err]
    gets,         \* log: number of GETs this call issued to the API
    sPayload,     \* log: what the response this call decoded held
    getRet,       \* what the last call of Get returned: [g, err], and the
                  \* number of reviews g holds
    \* ---- SearchMultipleTypes ----
    aggPc,        \* position of the call: idle, loop, wait, sort, ret
    aggQuery,     \* the argument query
    searchTypes,  \* the argument searchTypes
    aggIdx,       \* position of the range loop in searchTypes (1-based)
    idgames,      \* the result slice idgames
    fieldLog,     \* log: per field type of this call, what Search returned:
                  \* [idgames, err]
    \* ---- IdgamesBrowser ----
    heap,         \* the backing arrays of the result slices, in order of
                  \* allocation; a slice is named by its position here
    browserIdgames, \* browser.idgames: a slice (0: nil)
    handlerList,  \* the slice the selection-changed closure captured (0: no closure)
    tableRows,    \* rows of browser.list below the header
    selectedRow,  \* the selected row of browser.list
    queued,       \* number of closures handed to QueueUpdateDraw and not yet run
    requests,     \* number of UpdateSearch and UpdateLatest calls
    uiPc,         \* position of the UI goroutine: loop, net, spawn, populate
    uiList,       \* the closure's local idgames
    wk,           \* the updateGameDetails goroutines, one per slice:
                  \* [pc, i, g], pc one of none, fetch, store, done
    orig,         \* log: each slice as the search returned it
    fetchLog,     \* log: per slice, what Get returned for each entry so far:
                  \* [id, g, err]
    writtenBy,    \* log: per slice and entry, the goroutine that wrote it last (0: none)
    staleWrite,   \* log: a goroutine wrote after a newer slice became browser.idgames
    \* ---- IdgamesBrowser: callbacks and the download prompt ----
    confirmCallback,      \* whether b.confirmCallback is set (not nil)
    postDownloadCallback, \* whether b.postDownloadCallback is set (not nil)
    pageDLSure,   \* the page pageDLSure of b.canvas: NoPage, or what its
                  \* closures captured: [g, r], with the log of what the
                  \* entry held when g was copied: [before, after]
    confirmArg,   \* log: the record b.confirmCallback was last called with
    accepts,      \* log: number of times the button "Download" was pressed
    downloadCalls, \* log: number of calls of DownloadTo by the accept closure
    dlReceiver,   \* the receiver g of the call of DownloadTo under way
    downloadsOk,  \* log: number of those calls that returned no error
    declined,     \* log: whether the button "Cancel" was pressed
    postDownloadLog, \* log: the paths b.postDownloadCallback was called with
    dlErr,        \* log: the error the last call of DownloadTo returned to
                  \* the accept closure, which drops it
    messages      \* log: the error messages shown to the user, each
                  \* [action, err]

dlVars == <<Mirrors, dlPc, dlCalls, dlPath, gFilename, dlIdx, success, filePath,
            body, wcTotal, dirExists, file, fileExists, dlRet, attempts,
            published, creates>>

sVars == <<sPc, sQuery, sRet, gets, sPayload, getRet>>

aggVars == <<aggPc, aggQuery, searchTypes, aggIdx, idgames, fieldLog>>

brVars == <<heap, browserIdgames, handlerList, tableRows, selectedRow,
            queued, requests, uiPc, uiList, wk, orig, fetchLog, writtenBy,
            staleWrite>>

prVars == <<confirmCallback, postDownloadCallback, pageDLSure, confirmArg,
            accepts, downloadCalls, dlReceiver, downloadsOk, declined,
            postDownloadLog, dlErr, messages>>

vars == <<dlVars, sVars, aggVars, brVars, prVars>>

----------------------------------------------------------------------------
(* Bounds *)

MaxMirrors == 3
MaxBody == 2
MaxCalls == 2
MaxQueryChars == 3
MaxFileLen == 2
MaxTypes == 2
MaxRequests == 2
MaxListLen == 2
MaxBadAnswers == 1

----------------------------------------------------------------------------
(* Strings and paths.  A path is the sequence of its components; the empty  *)
(* string is the empty sequence.                                            *)

EmptyString == <<>>

\* filepath.Join(path, g.Filename)
Join(p, f) == <<p, f>>

Paths == {"dl"}
Filenames == {"a.zip"}

NilErr == "nil"
ErrMkdir == "mkdir"
ErrUnableToDownload == "Unable to download."

\* The mirror lists: n distinct hosts, named 1..n in list order.
MirrorLists == {[k \in 1..n |-> k] : n \in 0..MaxMirrors}

\* n bytes served by mirror m
Bytes(m, n) == [k \in 1..n |-> m]

----------------------------------------------------------------------------
(* Idgame.DownloadTo *)

DlInit ==
    /\ Mirrors \in MirrorLists
    /\ dlPc = "idle"
    /\ dlCalls = 0
    /\ dlPath = "dl"
    /\ gFilename = "a.zip"
    /\ dlIdx = 1
    /\ success = FALSE
    /\ filePath = EmptyString
    /\ body = 0
    /\ wcTotal = 0
    /\ dirExists \in BOOLEAN
    /\ file = <<>>
    /\ fileExists = FALSE
    /\ dlRet = [path |-> EmptyString, err |-> NilErr]
    /\ attempts = <<>>
    /\ published = <<>>
    /\ creates = 0

\* Mutant: the call resumes at the mirror the previous call stopped at.
DlCallResume ==
    /\ dlPc = "idle"
    /\ dlCalls < MaxCalls
    /\ dlCalls' = dlCalls + 1
    /\ dlPath' \in Paths
    /\ gFilename' \in Filenames
    /\ success' = FALSE
    /\ filePath' = EmptyString
    /\ attempts' = <<>>
    /\ published' = <<>>
    /\ creates' = 0
    /\ dlPc' = "mkdir"
    /\ UNCHANGED <<prVars, sVars, aggVars, brVars, Mirrors, dlIdx, body,
                   wcTotal, dirExists, file, fileExists, dlRet>>

\* The call: success := false, filePath is the zero string.
DlCall ==
    /\ dlPc = "idle"
    /\ dlCalls < MaxCalls
    /\ dlCalls' = dlCalls + 1
    /\ dlPath' \in Paths
    /\ gFilename' \in Filenames
    /\ success' = FALSE
    /\ filePath' = EmptyString
    /\ dlIdx' = 1
    /\ attempts' = <<>>
    /\ published' = <<>>
    /\ creates' = 0
    /\ dlPc' = "mkdir"
    /\ UNCHANGED <<prVars, sVars, aggVars, brVars, Mirrors, body, wcTotal,
                   dirExists, file, fileExists, dlRet>>

\* os.MkdirAll(path, 0755) succeeds.
DlMkdirOk ==
    /\ dlPc = "mkdir"
    /\ dirExists' = TRUE
    /\ dlPc' = "loop"
    /\ UNCHANGED <<prVars, sVars, aggVars, brVars, Mirrors, dlCalls, dlPath,
                   gFilename, dlIdx, success, filePath, body, wcTotal, file,
                   fileExists, dlRet, attempts, published, creates>>

\* Mutant: the error of os.MkdirAll is returned only after the first mirror
\* was asked.
DlMkdirFailLate ==
    /\ dlPc = "mkdir"
    /\ ~dirExists
    /\ attempts' = IF Mirrors = <<>> THEN attempts ELSE Append(attempts, Mirrors[1])
    /\ dlRet' = [path |-> EmptyString, err |-> ErrMkdir]
    /\ dlPc' = "ret"
    /\ UNCHANGED <<prVars, sVars, aggVars, brVars, Mirrors, dlCalls, dlPath,
                   gFilename, dlIdx, success, filePath, body, wcTotal,
                   dirExists, file, fileExists, published, creates>>

\* os.MkdirAll fails: return "", err.
DlMkdirFail ==
    /\ dlPc = "mkdir"
    /\ ~dirExists
    /\ dlRet' = [path |-> EmptyString, err |-> ErrMkdir]
    /\ dlPc' = "ret"
    /\ UNCHANGED <<prVars, sVars, aggVars, brVars, Mirrors, dlCalls, dlPath,
                   gFilename, dlIdx, success, filePath, body, wcTotal,
                   dirExists, file, fileExists, attempts, published,
                   creates>>

\* Mutant: the loop skips a mirror.
NextMirrorSkip(i) == i + 2

\* The position the range loop takes after the mirror at position i.
NextMirror(i) == i + 1

\* http.Get on the next mirror fails: continue.
DlGetFail ==
    /\ dlPc = "loop"
    /\ dlIdx <= Len(Mirrors)
    /\ attempts' = Append(attempts, Mirrors[dlIdx])
    /\ dlIdx' = NextMirror(dlIdx)
    /\ UNCHANGED <<prVars, sVars, aggVars, brVars, Mirrors, dlPc, dlCalls,
                   dlPath, gFilename, success, filePath, body, wcTotal,
                   dirExists, file, fileExists, dlRet, published, creates>>

\* http.Get on the next mirror answers with a body of some length.
DlGetOk ==
    /\ dlPc = "loop"
    /\ dlIdx <= Len(Mirrors)
    /\ attempts' = Append(attempts, Mirrors[dlIdx])
    /\ body' \in 0..MaxBody
    /\ dlPc' = "create"
    /\ UNCHANGED <<prVars, sVars, aggVars, brVars, Mirrors, dlCalls, dlPath,
                   gFilename, dlIdx, success, filePath, wcTotal, dirExists,
                   file, fileExists, dlRet, published, creates>>

\* os.Create(filepath.Join(path, g.Filename)) fails: continue.
DlCreateFail ==
    /\ dlPc = "create"
    /\ creates' = creates + 1
    /\ dlIdx' = NextMirror(dlIdx)
    /\ dlPc' = "loop"
    /\ UNCHANGED <<prVars, sVars, aggVars, brVars, Mirrors, dlCalls, dlPath,
                   gFilename, success, filePath, body, wcTotal, dirExists,
                   file, fileExists, dlRet, attempts, published>>

\* The Total a new WriteCounter starts with: counter := &WriteCounter{}.
NewCounterTotal(old) == 0

\* Mutant: the file is opened without truncating it.
DlCreateOkAppend ==
    /\ dlPc = "create"
    /\ dirExists
    /\ creates' = creates + 1
    /\ fileExists' = TRUE
    /\ wcTotal' = NewCounterTotal(wcTotal)
    /\ dlPc' = "copy"
    /\ UNCHANGED <<prVars, sVars, aggVars, brVars, Mirrors, dlCalls, dlPath,
                   gFilename, dlIdx, success, filePath, body, dirExists,
                   file, dlRet, attempts, published>>

\* os.Create succeeds: the file exists and is truncated; a new WriteCounter.
DlCreateOk ==
    /\ dlPc = "create"
    /\ dirExists
    /\ creates' = creates + 1
    /\ file' = <<>>
    /\ fileExists' = TRUE
    /\ wcTotal' = NewCounterTotal(wcTotal)
    /\ dlPc' = "copy"
    /\ UNCHANGED <<prVars, sVars, aggVars, brVars, Mirrors, dlCalls, dlPath,
                   gFilename, dlIdx, success, filePath, body, dirExists,
                   dlRet, attempts, published>>

\* Mutant: the counter publishes the chunk's size, not the running total.
WriteCounterChunk(total, n) == n

\* WriteCounter.Write(p) with len(p) = n: the new Total, which PrintProgress prints.
WriteCounterWrite(total, n) == total + n

\* One round of io.Copy: the TeeReader reads n bytes and hands them to the
\* counter, which publishes its total; then the bytes are written to out.
\* A failing write to out ends this mirror's attempt.
DlCopyChunk ==
    /\ dlPc = "copy"
    /\ body > 0
    /\ \E n \in 1..body, wok \in BOOLEAN :
          /\ wcTotal' = WriteCounterWrite(wcTotal, n)
          /\ published' = Append(published,
                                  [mirror |-> Mirrors[dlIdx], total |-> wcTotal'])
          /\ body' = body - n
          /\ IF wok
                THEN /\ file' = file \o Bytes(Mirrors[dlIdx], n)
                     /\ UNCHANGED <<dlIdx, dlPc>>
                ELSE /\ file' = file
                     /\ dlIdx' = NextMirror(dlIdx)
                     /\ dlPc' = "loop"
    /\ UNCHANGED <<prVars, sVars, aggVars, brVars, Mirrors, dlCalls, dlPath,
                   gFilename, success, filePath, dirExists, fileExists,
                   dlRet, attempts, creates>>

\* resp.Body.Read fails mid-stream: io.Copy returns the error, next mirror.
DlCopyReadErr ==
    /\ dlPc = "copy"
    /\ dlIdx' = NextMirror(dlIdx)
    /\ dlPc' = "loop"
    /\ UNCHANGED <<prVars, sVars, aggVars, brVars, Mirrors, dlCalls, dlPath,
                   gFilename, success, filePath, body, wcTotal, dirExists,
                   file, fileExists, dlRet, attempts, published, creates>>

\* resp.Body is at EOF: io.Copy returns nil; success = true; break.
DlCopyDone ==
    /\ dlPc = "copy"
    /\ body = 0
    /\ success' = TRUE
    /\ dlPc' = "after"
    /\ UNCHANGED <<prVars, sVars, aggVars, brVars, Mirrors, dlCalls, dlPath,
                   gFilename, dlIdx, filePath, body, wcTotal, dirExists,
                   file, fileExists, dlRet, attempts, published, creates>>

\* The range loop is over.
DlLoopEnd ==
    /\ dlPc = "loop"
    /\ dlIdx > Len(Mirrors)
    /\ dlPc' = "after"
    /\ UNCHANGED <<prVars, sVars, aggVars, brVars, Mirrors, dlCalls, dlPath,
                   gFilename, dlIdx, success, filePath, body, wcTotal,
                   dirExists, file, fileExists, dlRet, attempts, published,
                   creates>>

\* What DownloadTo returns after the loop.
DownloadResult(ok, fp) ==
    IF ~ok THEN [path |-> EmptyString, err |-> ErrUnableToDownload]
           ELSE [path |-> fp, err |-> NilErr]

DlReturn ==
    /\ dlPc = "after"
    /\ dlRet' = DownloadResult(success, filePath)
    /\ dlPc' = "ret"
    /\ UNCHANGED <<prVars, sVars, aggVars, brVars, Mirrors, dlCalls, dlPath,
                   gFilename, dlIdx, success, filePath, body, wcTotal,
                   dirExists, file, fileExists, attempts, published,
                   creates>>

\* The caller has the result.
DlBack ==
    /\ dlPc = "ret"
    /\ dlPc' = "idle"
    /\ UNCHANGED <<prVars, sVars, aggVars, brVars, Mirrors, dlCalls, dlPath,
                   gFilename, dlIdx, success, filePath, body, wcTotal,
                   dirExists, file, fileExists, dlRet, attempts, published,
                   creates>>

DlNext ==
    \/ DlCall
    \/ DlMkdirOk
    \/ DlMkdirFail
    \/ DlGetFail
    \/ DlGetOk
    \/ DlCreateFail
    \/ DlCreateOk
    \/ DlCopyChunk
    \/ DlCopyReadErr
    \/ DlCopyDone
    \/ DlLoopEnd
    \/ DlReturn
    \/ DlBack

\* The package's state with no call of DownloadTo under way.
DlIdle ==
    /\ DlInit
    /\ Mirrors = <<1, 2>>
    /\ dirExists = FALSE

----------------------------------------------------------------------------
(* Records.  Of an Idgame the model keeps Id, Rating and whether Textfile   *)
(* is filled (the detail Get adds to a search result).                      *)

Idgame(i, r, t) == [id |-> i, rating |-> r, textfile |-> t]

\* The zero value of Idgame.
ZeroIdgame == Idgame(0, 0, FALSE)

\* The records the archive answers a search with: two of equal rating, one of
\* a higher rating.
WireRecords == {Idgame(1, 1, FALSE), Idgame(2, 1, FALSE), Idgame(3, 2, FALSE)}

RECURSIVE SeqsUpTo(_, _)
SeqsUpTo(S, n) ==
    IF n = 0 THEN {<<>>}
    ELSE LET shorter == SeqsUpTo(S, n - 1)
         IN  shorter \cup {Append(q, x) : q \in {t \in shorter : Len(t) = n - 1}, x \in S}

\* What gjson finds at content.file of a response:
\*   array    a JSON array of records
\*   object   a single JSON object
\*   scalar   a number or a boolean
\*   absent   nothing, or text that is no JSON value
\* mistyped: a record of it carries a rating that is no JSON number.
Payload(sh, it, mt) == [shape |-> sh, items |-> it, mistyped |-> mt]

Payloads ==
    {Payload("array", it, FALSE) : it \in SeqsUpTo(WireRecords, MaxFileLen)}
    \cup {Payload("array", <<r>>, TRUE) : r \in WireRecords}
    \cup {Payload("object", <<r>>, mt) : r \in WireRecords, mt \in BOOLEAN}
    \cup {Payload("scalar", <<>>, FALSE), Payload("absent", <<>>, FALSE)}

\* No response was decoded.
NoPayload == Payload("none", <<>>, FALSE)

ErrValidation == "Query must at least be 3 characters."
ErrConnect == "Could not connect to idgames"
ErrRead == "Could not understand idgame's response"
ErrSyntax == "json.SyntaxError"
ErrType == "json.UnmarshalTypeError"

\* A record decoded from a JSON object: a mistyped field keeps its zero value.
DecodeRecord(r, mt) == IF mt THEN [r EXCEPT !.rating = 0] ELSE r

\* json.Unmarshal(content.file, &idgames) with idgames a nil []Idgame.
UnmarshalSlice(p) ==
    CASE p.shape = "array" ->
            [val |-> [k \in 1..Len(p.items) |-> DecodeRecord(p.items[k], p.mistyped)],
             err |-> IF p.mistyped THEN ErrType ELSE NilErr]
      [] p.shape = "object" -> [val |-> <<>>, err |-> ErrType]
      [] p.shape = "scalar" -> [val |-> <<>>, err |-> ErrType]
      [] OTHER -> [val |-> <<>>, err |-> ErrSyntax]

\* json.Unmarshal(content.file, &idgames[0]) with idgames[0] the zero Idgame.
UnmarshalOne(p) ==
    CASE p.shape = "object" ->
            [val |-> DecodeRecord(p.items[1], p.mistyped),
             err |-> IF p.mistyped THEN ErrType ELSE NilErr]
      [] p.shape = "array" -> [val |-> ZeroIdgame, err |-> ErrType]
      [] p.shape = "scalar" -> [val |-> ZeroIdgame, err |-> ErrType]
      [] OTHER -> [val |-> ZeroIdgame, err |-> ErrSyntax]

\* The decoding of Search and LatestFiles: the slice first; on an
\* UnmarshalTypeError a slice of one record, decoded again as one object.
DecodeFile(p) ==
    LET first == UnmarshalSlice(p)
    IN  IF first.err = NilErr THEN [idgames |-> first.val, err |-> NilErr]
        ELSE IF first.err = ErrType
                THEN [idgames |-> <<UnmarshalOne(p).val>>, err |-> UnmarshalOne(p).err]
                ELSE [idgames |-> first.val, err |-> first.err]

----------------------------------------------------------------------------
(* Search *)

\* The bytes a character takes in a Go string (UTF-8): one or two here.
CharWidths == {1, 2}

Queries == SeqsUpTo(CharWidths, MaxQueryChars)

RECURSIVE GoLen(_)
\* len(query): the number of bytes of the string.
GoLen(q) == IF q = <<>> THEN 0 ELSE Head(q) + GoLen(Tail(q))

\* The least len(query) Search accepts.
MinQueryLen == 3

\* Mutant: the check also rejects a query of MinQueryLen bytes.
QueryTooShortOffByOne(q) == GoLen(q) <= MinQueryLen

\* if len(query) < 3
QueryTooShort(q) == GoLen(q) < MinQueryLen

SearchIdle ==
    /\ sPc = "idle"
    /\ sQuery = <<>>
    /\ sRet = [idgames |-> <<>>, err |-> NilErr]
    /\ gets = 0
    /\ sPayload = NoPayload
    /\ getRet = [g |-> ZeroIdgame, reviews |-> 0, err |-> NilErr]

\* Search(q, ...) is entered: the length check, then getResponseData's http.Get.
SearchEnter(q) ==
    /\ sPc = "idle"
    /\ sQuery' = q
    /\ sPayload' = NoPayload
    /\ IF QueryTooShort(q)
          THEN /\ sRet' = [idgames |-> <<>>, err |-> ErrValidation]
               /\ gets' = 0
               /\ sPc' = "ret"
          ELSE /\ sRet' = sRet
               /\ gets' = 1
               /\ sPc' = "get"

\* http.Get fails, or ioutil.ReadAll fails: return nil, err.
SearchTransportFail ==
    /\ sPc = "get"
    /\ \E e \in {ErrConnect, ErrRead} : sRet' = [idgames |-> <<>>, err |-> e]
    /\ sPc' = "ret"
    /\ UNCHANGED <<prVars, dlVars, aggVars, brVars, sQuery, gets, sPayload,
                   getRet>>

\* The response is read and decoded.
SearchResponse ==
    /\ sPc = "get"
    /\ \E p \in Payloads :
          /\ sPayload' = p
          /\ sRet' = DecodeFile(p)
    /\ sPc' = "ret"
    /\ UNCHANGED <<prVars, dlVars, aggVars, brVars, sQuery, gets, getRet>>

\* A caller calls Search with some query.
SearchCall ==
    /\ \E q \in Queries : SearchEnter(q)
    /\ UNCHANGED <<prVars, dlVars, aggVars, brVars, getRet>>

\* The caller has the result.
SearchBack ==
    /\ sPc = "ret"
    /\ sPc' = "idle"
    /\ UNCHANGED <<prVars, dlVars, aggVars, brVars, sQuery, sRet, gets,
                   sPayload, getRet>>

----------------------------------------------------------------------------
(* LatestFiles *)

\* LatestFiles(limit, startid) is called: no check of the arguments, then
\* getResponseData's http.Get.
LatestCall ==
    /\ sPc = "idle"
    /\ sQuery' = <<>>
    /\ sPayload' = NoPayload
    /\ gets' = 1
    /\ sPc' = "lget"
    /\ UNCHANGED <<prVars, dlVars, aggVars, brVars, sRet, getRet>>

\* http.Get fails, or ioutil.ReadAll fails: return nil, err.
LatestTransportFail ==
    /\ sPc = "lget"
    /\ \E e \in {ErrConnect, ErrRead} : sRet' = [idgames |-> <<>>, err |-> e]
    /\ sPc' = "lret"
    /\ UNCHANGED <<prVars, dlVars, aggVars, brVars, sQuery, gets, sPayload,
                   getRet>>

\* The response is read and decoded, by the same steps as in Search.
LatestResponse ==
    /\ sPc = "lget"
    /\ \E p \in Payloads :
          /\ sPayload' = p
          /\ sRet' = DecodeFile(p)
    /\ sPc' = "lret"
    /\ UNCHANGED <<prVars, dlVars, aggVars, brVars, sQuery, gets, getRet>>

\* The caller has the result.
LatestBack ==
    /\ sPc = "lret"
    /\ sPc' = "idle"
    /\ UNCHANGED <<prVars, dlVars, aggVars, brVars, sQuery, sRet, gets,
                   sPayload, getRet>>

----------------------------------------------------------------------------
(* Get *)

\* What gjson finds at reviews.review of the content: an array of reviews, a
\* single review, or nothing.
ReviewShapes == {"array", "object", "absent"}

\* A response to Get: what gjson finds at content, and at reviews.review of it.
GetPayload(c, rv) == [content |-> c, reviews |-> rv]

\* The record of a get response carries the text file.
WithTextfile(r) == [r EXCEPT !.textfile = TRUE]

GetPayloads ==
    {GetPayload(Payload("object", <<WithTextfile(r)>>, mt), rv) :
        r \in WireRecords, mt \in BOOLEAN, rv \in ReviewShapes}
    \cup {GetPayload(Payload(sh, <<>>, FALSE), "absent") : sh \in {"scalar", "absent"}}

\* json.Unmarshal(reviews, &g.Reviews): the number of reviews g has after it,
\* the array holding one.  On an error g.Reviews stays nil.
UnmarshalReviews(rv) == IF rv = "array" THEN 1 ELSE 0

\* The two json.Unmarshal calls of Get and its return: neither error is
\* looked at, g is what the calls left in it and err is the nil error of
\* getResponseData.
GetDecode(p) ==
    [g |-> UnmarshalOne(p.content).val,
     reviews |-> UnmarshalReviews(p.reviews),
     err |-> NilErr]

\* Get(id, filepath) is called: getResponseData's http.Get.
GetCall ==
    /\ sPc = "idle"
    /\ sQuery' = <<>>
    /\ sPayload' = NoPayload
    /\ gets' = 1
    /\ sPc' = "gget"
    /\ UNCHANGED <<prVars, dlVars, aggVars, brVars, sRet, getRet>>

\* http.Get fails: return g, err with g the zero Idgame.
GetConnectFail ==
    /\ sPc = "gget"
    /\ getRet' = [g |-> ZeroIdgame, reviews |-> 0, err |-> ErrConnect]
    /\ sPc' = "gret"
    /\ UNCHANGED <<prVars, dlVars, aggVars, brVars, sQuery, sRet, gets,
                   sPayload>>

\* ioutil.ReadAll fails: return g, err with g the zero Idgame.
GetReadFail ==
    /\ sPc = "gget"
    /\ getRet' = [g |-> ZeroIdgame, reviews |-> 0, err |-> ErrRead]
    /\ sPc' = "gret"
    /\ UNCHANGED <<prVars, dlVars, aggVars, brVars, sQuery, sRet, gets,
                   sPayload>>

\* The response is read and decoded.
GetResponse ==
    /\ sPc = "gget"
    /\ \E p \in GetPayloads :
          /\ sPayload' = p
          /\ getRet' = GetDecode(p)
    /\ sPc' = "gret"
    /\ UNCHANGED <<prVars, dlVars, aggVars, brVars, sQuery, sRet, gets>>

\* The caller has the result.
GetBack ==
    /\ sPc = "gret"
    /\ sPc' = "idle"
    /\ UNCHANGED <<prVars, dlVars, aggVars, brVars, sQuery, sRet, gets,
                   sPayload, getRet>>

----------------------------------------------------------------------------
(* SearchMultipleTypes *)

\* SEARCH_TYPE_*
AllSearchTypes == <<"title", "author", "filename", "email", "description",
                    "credits", "editors", "textfile">>

TypeLists == {SubSeq(AllSearchTypes, 1, n) : n \in 0..MaxTypes}

\* The queries SearchMultipleTypes is called with: "ab" and "abc".
AggQueries == {<<1, 1>>, <<1, 1, 1>>}

Range(q) == {q[k] : k \in DOMAIN q}

\* Mutant: the comparison is ascending.
RatingLessAscending(a, b) == a.rating < b.rating

\* The less function of sort.Slice: idgames[i].Rating > idgames[j].Rating
RatingLess(a, b) == a.rating > b.rating

RECURSIVE RemoveFirst(_, _)
RemoveFirst(q, x) ==
    IF q = <<>> THEN <<>>
    ELSE IF Head(q) = x THEN Tail(q) ELSE <<Head(q)>> \o RemoveFirst(Tail(q), x)

RECURSIVE SortSlice(_)
\* sort.Slice(idgames, less): the slice is permuted so that no element is less
\* than one before it.  The sort is not stable: elements of which neither is
\* less than the other come out in any order.
SortSlice(q) ==
    IF q = <<>> THEN {<<>>}
    ELSE LET firsts == {x \in Range(q) : \A y \in Range(q) : ~RatingLess(y, x)}
         IN  UNION {{<<x>> \o t : t \in SortSlice(RemoveFirst(q, x))} : x \in firsts}

\* Mutant: a record already in the result is not appended again.
AppendNew(acc, tmp) == acc \o SelectSeq(tmp, LAMBDA x : x \notin Range(acc))

\* if len(tmp) > 0 { idgames = append(idgames, tmp...) }
AppendResults(acc, tmp) == IF Len(tmp) > 0 THEN acc \o tmp ELSE acc

AggIdle ==
    /\ aggPc = "idle"
    /\ aggQuery = <<>>
    /\ searchTypes = <<>>
    /\ aggIdx = 1
    /\ idgames = <<>>
    /\ fieldLog = <<>>

\* SearchMultipleTypes(query, searchTypes, ...): idgames = make([]Idgame, 0)
AggCall ==
    /\ aggPc = "idle"
    /\ sPc = "idle"
    /\ aggQuery' \in AggQueries
    /\ searchTypes' \in TypeLists
    /\ aggIdx' = 1
    /\ idgames' = <<>>
    /\ fieldLog' = <<>>
    /\ aggPc' = "loop"
    /\ UNCHANGED <<prVars, dlVars, sVars, brVars>>

\* The loop calls Search(query, t, sorting, sortOrder) for the next type.
AggSearch ==
    /\ aggPc = "loop"
    /\ aggIdx <= Len(searchTypes)
    /\ SearchEnter(aggQuery)
    /\ aggPc' = "wait"
    /\ UNCHANGED <<prVars, dlVars, brVars, getRet, aggQuery, searchTypes,
                   aggIdx, idgames, fieldLog>>

\* tmp, _ := Search(...); a non-empty tmp is appended, the error is dropped.
AggTake ==
    /\ aggPc = "wait"
    /\ sPc = "ret"
    /\ idgames' = AppendResults(idgames, sRet.idgames)
    /\ fieldLog' = Append(fieldLog, sRet)
    /\ aggIdx' = aggIdx + 1
    /\ sPc' = "idle"
    /\ aggPc' = "loop"
    /\ UNCHANGED <<prVars, dlVars, brVars, sQuery, sRet, gets, sPayload,
                   getRet, aggQuery, searchTypes>>

\* The loop is over: sort.Slice(idgames, ...), and return.
AggSort ==
    /\ aggPc = "loop"
    /\ aggIdx > Len(searchTypes)
    /\ idgames' \in SortSlice(idgames)
    /\ aggPc' = "ret"
    /\ UNCHANGED <<prVars, dlVars, sVars, brVars, aggQuery, searchTypes,
                   aggIdx, fieldLog>>

\* The caller has the result.
AggBack ==
    /\ aggPc = "ret"
    /\ aggPc' = "idle"
    /\ UNCHANGED <<prVars, dlVars, sVars, brVars, aggQuery, searchTypes,
                   aggIdx, idgames, fieldLog>>

SearchNext ==
    \/ SearchCall
    \/ SearchTransportFail
    \/ SearchResponse
    \/ SearchBack
    \/ LatestCall
    \/ LatestTransportFail
    \/ LatestResponse
    \/ LatestBack
    \/ GetCall
    \/ GetConnectFail
    \/ GetReadFail
    \/ GetResponse
    \/ GetBack

AggNext ==
    \/ AggCall
    \/ AggSearch
    \/ SearchTransportFail
    \/ SearchResponse
    \/ AggTake
    \/ AggSort
    \/ AggBack

----------------------------------------------------------------------------
(* IdgamesBrowser: UpdateSearch, UpdateLatest, populateList and the          *)
(* updateGameDetails goroutines.                                             *)
(*                                                                           *)
(* A slice is a position in heap, its backing array.  SearchMultipleTypes    *)
(* and LatestFiles return a slice of a new array on every call.              *)

\* The archive's records in the order a search by rating returns them.
ArchiveOrder == <<Idgame(3, 2, FALSE), Idgame(1, 1, FALSE), Idgame(2, 1, FALSE)>>

\* The result lists the browser is handed: SearchMultipleTypes(query, types,
\* SEARCH_SORT_RATING, SEARCH_SORT_DESC) or LatestFiles(50, 0), errors dropped.
BrowserLists == {SubSeq(ArchiveOrder, 1, n) : n \in 0..MaxListLen}

\* What Get(id, "") returns: no record and an error when getResponseData
\* fails, else the record of that id with its text file.
GetOutcomes(id) ==
    {[id |-> id, g |-> ZeroIdgame, err |-> ErrConnect],
     [id |-> id, g |-> Idgame(id, (CHOOSE r \in WireRecords : r.id = id).rating, TRUE),
      err |-> NilErr]}

\* b.canvas without the page pageDLSure.
NoPage == [g |-> ZeroIdgame, r |-> 0, before |-> ZeroIdgame, after |-> ZeroIdgame]

NoWorker == [pc |-> "none", i |-> 1, g |-> ZeroIdgame]

BrInit ==
    /\ heap = <<>>
    /\ browserIdgames = 0
    /\ handlerList = 0
    /\ tableRows = 0
    /\ selectedRow = 0
    /\ queued = 0
    /\ requests = 0
    /\ uiPc = "loop"
    /\ uiList = 0
    /\ wk = <<>>
    /\ orig = <<>>
    /\ fetchLog = <<>>
    /\ writtenBy = <<>>
    /\ staleWrite = FALSE

\* UpdateSearch: a goroutine hands the closure that searches to QueueUpdateDraw.
UpdateSearch ==
    /\ requests < MaxRequests
    /\ requests' = requests + 1
    /\ queued' = queued + 1
    /\ UNCHANGED <<prVars, dlVars, sVars, aggVars, heap, browserIdgames,
                   handlerList, tableRows, selectedRow, uiPc, uiList, wk,
                   orig, fetchLog, writtenBy, staleWrite>>

\* UpdateLatest: the same, with the closure that calls LatestFiles(50, 0).
UpdateLatest ==
    /\ requests < MaxRequests
    /\ requests' = requests + 1
    /\ queued' = queued + 1
    /\ UNCHANGED <<prVars, dlVars, sVars, aggVars, heap, browserIdgames,
                   handlerList, tableRows, selectedRow, uiPc, uiList, wk,
                   orig, fetchLog, writtenBy, staleWrite>>

\* The UI goroutine takes the next closure and runs it: the closure calls
\* SearchMultipleTypes or LatestFiles.
UIRunClosure ==
    /\ uiPc = "loop"
    /\ queued > 0
    /\ queued' = queued - 1
    /\ uiPc' = "net"
    /\ UNCHANGED <<prVars, dlVars, sVars, aggVars, heap, browserIdgames,
                   handlerList, tableRows, selectedRow, requests, uiList, wk,
                   orig, fetchLog, writtenBy, staleWrite>>

\* idgames, _ := SearchMultipleTypes(...) or LatestFiles(50, 0) returns: a
\* slice of a new backing array.
UINetReturn ==
    /\ uiPc = "net"
    /\ \E list \in BrowserLists :
          /\ heap' = Append(heap, list)
          /\ orig' = Append(orig, list)
          /\ writtenBy' = Append(writtenBy, [k \in 1..Len(list) |-> 0])
    /\ fetchLog' = Append(fetchLog, <<>>)
    /\ wk' = Append(wk, NoWorker)
    /\ uiList' = Len(heap) + 1
    /\ uiPc' = "spawn"
    /\ UNCHANGED <<prVars, dlVars, sVars, aggVars, browserIdgames,
                   handlerList, tableRows, selectedRow, queued, requests,
                   staleWrite>>

\* go func() { updateGameDetails(idgames) }()
UISpawnBackfill ==
    /\ uiPc = "spawn"
    /\ wk' = [wk EXCEPT ![uiList] = [pc |-> "fetch", i |-> 1, g |-> ZeroIdgame]]
    /\ uiPc' = "populate"
    /\ UNCHANGED <<prVars, dlVars, sVars, aggVars, heap, browserIdgames,
                   handlerList, tableRows, selectedRow, queued, requests,
                   uiList, orig, fetchLog, writtenBy, staleWrite>>

\* browser.populateList(idgames): browser.idgames = idgames, the table is
\* filled from it, the selection-changed closure captures it.
UIPopulateList ==
    /\ uiPc = "populate"
    /\ browserIdgames' = uiList
    /\ handlerList' = uiList
    /\ tableRows' = Len(heap[uiList])
    /\ uiPc' = "loop"
    /\ UNCHANGED <<prVars, dlVars, sVars, aggVars, heap, selectedRow, queued,
                   requests, uiList, wk, orig, fetchLog, writtenBy,
                   staleWrite>>

\* The selection moves to row r of the table, which has the focus (no page
\* pageDLSure is open): the selection-changed closure renders idgames[r-1] of
\* the slice it captured, row 0 renders nothing.
SelectionChanged ==
    /\ uiPc = "loop"
    /\ handlerList # 0
    /\ pageDLSure = NoPage
    /\ \E r \in 0..tableRows :
          /\ selectedRow' = r
          /\ r # 0 => r \in DOMAIN heap[handlerList]
    /\ UNCHANGED <<prVars, dlVars, sVars, aggVars, heap, browserIdgames,
                   handlerList, tableRows, queued, requests, uiPc, uiList,
                   wk, orig, fetchLog, writtenBy, staleWrite>>

\* Mutant: after a failed Get the loop ends.
StopAfterFailure(a, i) == Len(heap[a]) + 1

\* if err != nil { continue }: the index after a failed Get on entry i.
AfterFailure(a, i) == i + 1

\* Mutant: the goroutine writes through browser.idgames.
BackfillTargetCurrent(a) == IF browserIdgames = 0 THEN a ELSE browserIdgames

\* The slice updateGameDetails(idgames) writes: its argument.
BackfillTarget(a) == a

\* g, err := Get(idgames[i].Id, "") in the goroutine of slice a.
BackfillGet(a) ==
    /\ wk[a].pc = "fetch"
    /\ wk[a].i <= Len(heap[a])
    /\ \E o \in GetOutcomes(heap[a][wk[a].i].id) :
          /\ fetchLog' = [fetchLog EXCEPT ![a] = Append(@, o)]
          /\ wk' = [wk EXCEPT ![a] =
                      IF o.err # NilErr
                         THEN [pc |-> "fetch", i |-> AfterFailure(a, wk[a].i), g |-> ZeroIdgame]
                         ELSE [pc |-> "store", i |-> wk[a].i, g |-> o.g]]
    /\ UNCHANGED <<prVars, dlVars, sVars, aggVars, heap, browserIdgames,
                   handlerList, tableRows, selectedRow, queued, requests,
                   uiPc, uiList, orig, writtenBy, staleWrite>>

\* The number of calls of Get so far that were answered with a body that is
\* no JSON.
BadAnswers ==
    Cardinality({<<a, k>> \in (DOMAIN fetchLog) \X (1..MaxListLen) :
                    /\ k \in DOMAIN fetchLog[a]
                    /\ fetchLog[a][k].err = NilErr
                    /\ fetchLog[a][k].g = ZeroIdgame})

\* g, err := Get(idgames[i].Id, "") answered with a body that is no JSON: Get
\* drops the decode error and returns the zero Idgame and no error.
BackfillGetUndecodable(a) ==
    /\ wk[a].pc = "fetch"
    /\ wk[a].i <= Len(heap[a])
    /\ BadAnswers < MaxBadAnswers
    /\ LET o == GetDecode(GetPayload(Payload("absent", <<>>, FALSE), "absent"))
       IN  /\ fetchLog' = [fetchLog EXCEPT ![a] =
                              Append(@, [id |-> heap[a][wk[a].i].id, g |-> o.g,
                                         err |-> o.err])]
           /\ wk' = [wk EXCEPT ![a] = [pc |-> "store", i |-> wk[a].i, g |-> o.g]]
    /\ UNCHANGED <<prVars, dlVars, sVars, aggVars, heap, browserIdgames,
                   handlerList, tableRows, selectedRow, queued, requests,
                   uiPc, uiList, orig, writtenBy, staleWrite>>

\* idgames[i] = g
BackfillStore(a) ==
    /\ wk[a].pc = "store"
    /\ LET t == BackfillTarget(a)
           i == wk[a].i
       IN  /\ i <= Len(heap[t])
           /\ heap' = [heap EXCEPT ![t] = [@ EXCEPT ![i] = wk[a].g]]
           /\ writtenBy' = [writtenBy EXCEPT ![t] = [@ EXCEPT ![i] = a]]
    /\ staleWrite' = (staleWrite \/ browserIdgames > a)
    /\ wk' = [wk EXCEPT ![a] = [pc |-> "fetch", i |-> wk[a].i + 1, g |-> ZeroIdgame]]
    /\ UNCHANGED <<prVars, dlVars, sVars, aggVars, browserIdgames,
                   handlerList, tableRows, selectedRow, queued, requests,
                   uiPc, uiList, orig, fetchLog>>

\* The range loop of updateGameDetails is over.
BackfillEnd(a) ==
    /\ wk[a].pc = "fetch"
    /\ wk[a].i > Len(heap[a])
    /\ wk' = [wk EXCEPT ![a] = [@ EXCEPT !.pc = "done"]]
    /\ UNCHANGED <<prVars, dlVars, sVars, aggVars, heap, browserIdgames,
                   handlerList, tableRows, selectedRow, queued, requests,
                   uiPc, uiList, orig, fetchLog, writtenBy, staleWrite>>

Next ==
    \/ UpdateSearch
    \/ UpdateLatest
    \/ UIRunClosure
    \/ UINetReturn
    \/ UISpawnBackfill
    \/ UIPopulateList
    \/ SelectionChanged
    \/ \E a \in DOMAIN wk : BackfillGet(a)
    \/ \E a \in DOMAIN wk : BackfillStore(a)
    \/ \E a \in DOMAIN wk : BackfillEnd(a)


----------------------------------------------------------------------------
(* IdgamesBrowser: the callbacks, Enter on a row of the list and the page    *)
(* pageDLSure that asks before a download.                                   *)

PrInit ==
    /\ confirmCallback = FALSE
    /\ postDownloadCallback = FALSE
    /\ pageDLSure = NoPage
    /\ confirmArg = ZeroIdgame
    /\ accepts = 0
    /\ downloadCalls = 0
    /\ dlReceiver = ZeroIdgame
    /\ downloadsOk = 0
    /\ declined = FALSE
    /\ postDownloadLog = <<>>
    /\ dlErr = NilErr
    /\ messages = <<>>

\* The embedding program configures the browser before it asks for a list.
Configuring == requests = 0

\* SetConfirmCallback(f)
SetConfirmCallback ==
    /\ Configuring
    /\ ~confirmCallback
    /\ confirmCallback' = TRUE
    /\ UNCHANGED <<dlVars, sVars, aggVars, brVars, postDownloadCallback,
                   pageDLSure, confirmArg, accepts, downloadCalls,
                   dlReceiver, downloadsOk, declined, postDownloadLog, dlErr,
                   messages>>

\* SetPostDownloadCallback(doWhenDownloadDone): the field is assigned.
SetPostDownloadCallback ==
    /\ Configuring
    /\ ~postDownloadCallback
    /\ postDownloadCallback' = TRUE
    /\ UNCHANGED <<dlVars, sVars, aggVars, brVars, confirmCallback,
                   pageDLSure, confirmArg, accepts, downloadCalls,
                   dlReceiver, downloadsOk, declined, postDownloadLog, dlErr,
                   messages>>

\* The records a copy of an entry can be while the entry is assigned record n
\* over record o by another goroutine: each field is that of o or that of n.
Mixes(o, n) ==
    {[id |-> x.id, rating |-> y.rating, textfile |-> z.textfile] :
        x \in {o, n}, y \in {o, n}, z \in {o, n}}

\* The record a goroutine is about to assign to entry r of b.idgames, the
\* entry itself if there is none.
PendingStore(r) ==
    LET writers == {a \in DOMAIN wk : /\ wk[a].pc = "store"
                                      /\ BackfillTarget(a) = browserIdgames
                                      /\ wk[a].i = r}
    IN  IF writers = {} THEN heap[browserIdgames][r]
        ELSE wk[CHOOSE a \in writers : TRUE].g

\* g := b.idgames[r-1] on the UI goroutine: the entry, or with an assignment
\* of a goroutine to that entry under way (a data race) any mix of the two.
EntryCopies(r) == Mixes(heap[browserIdgames][r], PendingStore(r))

\* len(b.idgames)
LenIdgames == IF browserIdgames = 0 THEN 0 ELSE Len(heap[browserIdgames])

\* Enter on the list, its selection on row r (list.SetSelectedFunc): nothing
\* on the header row; else g := b.idgames[r-1], and g goes to the confirm
\* callback if one is set, else into the closures of a new page pageDLSure,
\* which takes the focus.
Enter ==
    /\ uiPc = "loop"
    /\ pageDLSure = NoPage
    /\ selectedRow <= LenIdgames
    /\ IF selectedRow = 0
          THEN UNCHANGED <<pageDLSure, confirmArg>>
          ELSE \E g \in EntryCopies(selectedRow) :
                  IF confirmCallback
                     THEN /\ confirmArg' = g
                          /\ UNCHANGED pageDLSure
                     ELSE /\ pageDLSure' =
                                [g |-> g, r |-> selectedRow,
                                 before |-> heap[browserIdgames][selectedRow],
                                 after |-> PendingStore(selectedRow)]
                          /\ UNCHANGED confirmArg
    /\ UNCHANGED <<dlVars, sVars, aggVars, brVars, confirmCallback,
                   postDownloadCallback, accepts, downloadCalls, dlReceiver,
                   downloadsOk, declined, postDownloadLog, dlErr, messages>>

\* Enter with the selection on a row past the end of b.idgames: the index
\* expression panics.
EnterOutOfRange ==
    /\ uiPc = "loop"
    /\ pageDLSure = NoPage
    /\ selectedRow > LenIdgames
    /\ uiPc' = "panic"
    /\ UNCHANGED <<prVars, dlVars, sVars, aggVars, heap, browserIdgames,
                   handlerList, tableRows, selectedRow, queued, requests,
                   uiList, wk, orig, fetchLog, writtenBy, staleWrite>>

\* Mutant: the accept closure calls DownloadTo on the entry the row holds now.
AcceptedRecordCurrent ==
    IF pageDLSure.r <= LenIdgames THEN heap[browserIdgames][pageDLSure.r]
    ELSE pageDLSure.g

\* The receiver of g.DownloadTo in the accept closure: the g it captured.
AcceptedRecord == pageDLSure.g

\* The button "Download" of the page: its label is set, then the accept
\* closure calls g.DownloadTo(b.downloadPath), on the UI goroutine.
UIAccept ==
    /\ uiPc = "loop"
    /\ pageDLSure # NoPage
    /\ downloadCalls < MaxCalls
    /\ accepts' = accepts + 1
    /\ downloadCalls' = downloadCalls + 1
    /\ dlReceiver' = AcceptedRecord
    /\ uiPc' = "download"
    /\ UNCHANGED <<dlVars, sVars, aggVars, heap, browserIdgames, handlerList,
                   tableRows, selectedRow, queued, requests, uiList, wk,
                   orig, fetchLog, writtenBy, staleWrite, confirmCallback,
                   postDownloadCallback, pageDLSure, confirmArg, downloadsOk,
                   declined, postDownloadLog, dlErr, messages>>

\* What a call of DownloadTo returns: the error of os.MkdirAll, or what it
\* returns after the loop, its named result filePath never assigned.
DownloadOutcomes ==
    {[path |-> EmptyString, err |-> ErrMkdir],
     DownloadResult(FALSE, EmptyString),
     DownloadResult(TRUE, EmptyString)}

\* g.DownloadTo returns, its results are dropped; the accept closure removes
\* the page and gives the focus to the list.
UIDownloadReturn ==
    /\ uiPc = "download"
    /\ \E res \in DownloadOutcomes :
          /\ downloadsOk' =
                IF res.err = NilErr THEN downloadsOk + 1 ELSE downloadsOk
          /\ dlErr' = res.err
    /\ dlReceiver' = ZeroIdgame
    /\ pageDLSure' = NoPage
    /\ uiPc' = "loop"
    /\ UNCHANGED <<dlVars, sVars, aggVars, heap, browserIdgames, handlerList,
                   tableRows, selectedRow, queued, requests, uiList, wk,
                   orig, fetchLog, writtenBy, staleWrite, confirmCallback,
                   postDownloadCallback, confirmArg, accepts, downloadCalls,
                   declined, postDownloadLog, messages>>

\* Mutant: the decline closure removes the page and also counts as a call
\* of DownloadTo.
UIDeclineDownloads ==
    /\ uiPc = "loop"
    /\ pageDLSure # NoPage
    /\ downloadCalls < MaxCalls
    /\ pageDLSure' = NoPage
    /\ declined' = TRUE
    /\ downloadCalls' = downloadCalls + 1
    /\ UNCHANGED <<dlVars, sVars, aggVars, brVars, confirmCallback,
                   postDownloadCallback, confirmArg, accepts, dlReceiver,
                   downloadsOk, postDownloadLog, dlErr, messages>>

\* The button "Cancel" of the page: the decline closure removes the page and
\* gives the focus to the list.
UIDecline ==
    /\ uiPc = "loop"
    /\ pageDLSure # NoPage
    /\ pageDLSure' = NoPage
    /\ declined' = TRUE
    /\ UNCHANGED <<dlVars, sVars, aggVars, brVars, confirmCallback,
                   postDownloadCallback, confirmArg, accepts, downloadCalls,
                   dlReceiver, downloadsOk, postDownloadLog, dlErr, messages>>

BrowserNext ==
    \/ SetConfirmCallback
    \/ SetPostDownloadCallback
    \/ UpdateSearch
    \/ UpdateLatest
    \/ UIRunClosure
    \/ UINetReturn
    \/ UISpawnBackfill
    \/ UIPopulateList
    \/ SelectionChanged
    \/ Enter
    \/ EnterOutOfRange
    \/ UIAccept
    \/ UIDownloadReturn
    \/ UIDecline
    \/ \E a \in DOMAIN wk : BackfillGet(a)
    \/ \E a \in DOMAIN wk : BackfillGetUndecodable(a)
    \/ \E a \in DOMAIN wk : BackfillStore(a)
    \/ \E a \in DOMAIN wk : BackfillEnd(a)

----------------------------------------------------------------------------
(* Specifications *)

\* The program with no call under way and the browser just constructed.
Init == DlIdle /\ SearchIdle /\ AggIdle /\ BrInit /\ PrInit

DownloadInit == DlInit /\ SearchIdle /\ AggIdle /\ BrInit /\ PrInit

DownloadSpec == DownloadInit /\ [][DlNext]_vars

SearchSpec == Init /\ [][SearchNext]_vars

AggSpec == Init /\ [][AggNext]_vars

Spec == Init /\ [][Next]_vars

BrowserSpec == Init /\ [][BrowserNext]_vars

----------------------------------------------------------------------------
(* Claims about Idgame.DownloadTo, checked under DownloadSpec *)

Last(s) == s[Len(s)]

\* The entries of the progress log published while copying from mirror m.
PublishedOf(m) == SelectSeq(published, LAMBDA e : e.mirror = m)

\* C1: one call of DownloadTo issues its GETs to the mirrors strictly in list
\* order, each at most once; once a mirror's copy has completed no later mirror
\* is attempted; the call returns the exhausted error only after every mirror
\* was attempted once, in order, and none completed.
C1_MirrorsInOrder ==
    /\ Len(attempts) <= Len(Mirrors)
    /\ \A k \in 1..Len(attempts) : attempts[k] = Mirrors[k]
    /\ success => attempts = SubSeq(Mirrors, 1, dlIdx)
    /\ (dlPc = "ret" /\ dlRet.err = NilErr) => success
    /\ (dlPc = "ret" /\ ~success) =>
          \/ dlRet.err = ErrUnableToDownload /\ attempts = Mirrors
          \/ dlRet.err = ErrMkdir /\ attempts = <<>>

\* C1 witness: the first mirror failed, the second completed, a third exists
\* and was not attempted.
C1_Witness ==
    /\ dlPc = "ret"
    /\ success
    /\ Len(Mirrors) = 3
    /\ attempts = <<Mirrors[1], Mirrors[2]>>

\* C8 as claimed: the totals published during one call never decrease, also
\* across a fallback to the next mirror, and on success the last one is the
\* number of bytes in the destination file.
C8_MonotoneAcrossFallback ==
    /\ \A k \in 1..(Len(published) - 1) :
          published[k].total <= published[k + 1].total
    /\ (dlPc = "ret" /\ success /\ published # <<>>) =>
          Last(published).total = Len(file)

\* C8 amended: the totals published while copying from one mirror never
\* decrease and start from zero for each mirror (the first total of a mirror
\* is the size of its first chunk, at most the body); on success the last
\* total published for the completing mirror is the number of bytes in the
\* destination file, and nothing was published for it if the file is empty.
C8_MonotonePerMirror ==
    /\ \A k \in 1..(Len(published) - 1) :
          published[k].mirror = published[k + 1].mirror =>
             published[k].total < published[k + 1].total
    /\ \A m \in 1..Len(Mirrors) :
          PublishedOf(Mirrors[m]) # <<>> =>
             PublishedOf(Mirrors[m])[1].total \in 1..MaxBody
    /\ \A k \in 1..Len(published) : published[k].total <= MaxBody
    /\ (dlPc = "ret" /\ success) =>
          IF PublishedOf(Mirrors[dlIdx]) = <<>>
             THEN Len(file) = 0
             ELSE Last(PublishedOf(Mirrors[dlIdx])).total = Len(file)

\* C8 witness: a mirror failed after publishing 2 bytes, the next mirror
\* completed with fewer bytes.
C8_Witness ==
    /\ dlPc = "ret"
    /\ success
    /\ Len(published) >= 2
    /\ published[1].total = 2
    /\ Last(published).total = 1
    /\ Len(file) = 1

\* C9 as claimed: a successful DownloadTo returns path joined with g.Filename.
C9_ReturnsJoinedPath ==
    (dlPc = "ret" /\ dlRet.err = NilErr) => dlRet.path = Join(dlPath, gFilename)

\* C12: when os.MkdirAll fails, DownloadTo returns that error and the empty
\* path at once: no GET was issued to any mirror, os.Create was not called,
\* the destination file does not exist and nothing was published as progress.
C12_MkdirFailureIsImmediate ==
    (dlPc = "ret" /\ dlRet.err = ErrMkdir) =>
       /\ dlRet.path = EmptyString
       /\ attempts = <<>>
       /\ creates = 0
       /\ published = <<>>
       /\ ~success
       /\ ~dirExists
       /\ ~fileExists /\ file = <<>>

\* C12 witness: a call returned the error of os.MkdirAll while there were
\* mirrors to ask.
C12_Witness ==
    /\ dlPc = "ret"
    /\ dlRet.err = ErrMkdir
    /\ Len(Mirrors) >= 2
    /\ attempts = <<>>

\* C23: while a mirror's body is copied, and when DownloadTo has returned
\* without error, the destination file exists and holds the bytes read from
\* that mirror's body so far, all of them on success, and no byte of another
\* mirror or of an earlier file of that name.
C23_FileIsSucceedingMirrorsBytes ==
    /\ dlPc = "copy" => file = Bytes(Mirrors[dlIdx], Len(file))
    /\ (dlPc \in {"after", "ret"} /\ success) =>
          /\ fileExists
          /\ body = 0
          /\ file = Bytes(Mirrors[dlIdx], wcTotal)

\* C23 witness: the second call succeeded on the second mirror after the
\* first mirror had failed with bytes of its body read, and the file holds
\* the second mirror's bytes.
C23_Witness ==
    /\ dlPc = "ret"
    /\ success
    /\ dlCalls = 2
    /\ dlIdx = 2
    /\ Len(published) >= 2
    /\ published[1].mirror = Mirrors[1]
    /\ file = Bytes(Mirrors[2], 2)

\* C24: no step of DownloadTo changes the mirror list, and in every call,
\* whatever the previous call's outcome, the first GET goes to the first
\* mirror of the list and each further GET to the next one in list order.
C24_NoStateBetweenCalls ==
    [][/\ Mirrors' = Mirrors
       /\ (attempts' # attempts /\ attempts' # <<>>) =>
             /\ Len(attempts) < Len(Mirrors)
             /\ attempts' = SubSeq(Mirrors, 1, Len(attempts) + 1)]_vars

\* C24 witness: the previous call tried every mirror and returned the
\* exhausted error, and the second call has sent its first GET to the first
\* mirror of a list of several.
C24_Witness ==
    /\ dlCalls = 2
    /\ dlPc = "create"
    /\ dlRet.err = ErrUnableToDownload
    /\ Len(Mirrors) >= 2
    /\ attempts = <<Mirrors[1]>>

----------------------------------------------------------------------------
(* Claims about Search, checked under SearchSpec *)

C11_ArrayOrSingleObject ==
    (sPc \in {"ret", "lret"} /\ sPayload # NoPayload) =>
       /\ sPayload.shape = "array" =>
             sRet.idgames = UnmarshalSlice(sPayload).val
       /\ sPayload.shape = "object" =>
             sRet = [idgames |-> <<UnmarshalOne(sPayload).val>>,
                     err |-> UnmarshalOne(sPayload).err]
       /\ UnmarshalSlice(sPayload).err = NilErr =>
             sRet = [idgames |-> UnmarshalSlice(sPayload).val, err |-> NilErr]
       /\ UnmarshalSlice(sPayload).err \notin {NilErr, ErrType} =>
             sRet = [idgames |-> <<>>, err |-> UnmarshalSlice(sPayload).err]

\* C13 as claimed: Get returns the connection error when http.Get fails and
\* the response-read error when the body cannot be read; it returns an error
\* when the content of the response is no JSON; when only the reviews fail to
\* decode it returns the record without an error.
C13_MalformedContentSurfaces ==
    sPc = "gret" =>
       /\ sPayload = NoPayload =>
             (getRet.err \in {ErrConnect, ErrRead} /\ getRet.g = ZeroIdgame)
       /\ sPayload # NoPayload =>
             /\ sPayload.content.shape = "absent" => getRet.err # NilErr
             /\ (sPayload.content.shape = "object" /\ ~sPayload.content.mistyped) =>
                   /\ getRet.err = NilErr
                   /\ getRet.g = sPayload.content.items[1]

----------------------------------------------------------------------------
(* Claims about SearchMultipleTypes, checked under AggSpec *)

Count(q, x) == Cardinality({k \in DOMAIN q : q[k] = x})

IsPermutation(a, b) ==
    /\ Len(a) = Len(b)
    /\ \A x \in Range(a) \cup Range(b) : Count(a, x) = Count(b, x)

RECURSIVE Flatten(_)
Flatten(qs) == IF qs = <<>> THEN <<>> ELSE Head(qs) \o Flatten(Tail(qs))

\* The slices the per-field Search calls returned, concatenated in field order.
ReturnedConcat == Flatten([k \in DOMAIN fieldLog |-> fieldLog[k].idgames])

\* The same, of the calls that returned no error only.
SucceededConcat ==
    Flatten([k \in DOMAIN fieldLog |->
                IF fieldLog[k].err = NilErr THEN fieldLog[k].idgames ELSE <<>>])

WithRating(q, r) == SelectSeq(q, LAMBDA x : x.rating = r)

RECURSIVE StableByRatings(_, _)
\* q ordered by rating, highest first, the order of equal ratings kept.
StableByRatings(q, rs) ==
    IF rs = {} THEN <<>>
    ELSE LET top == CHOOSE r \in rs : \A o \in rs : o <= r
         IN  WithRating(q, top) \o StableByRatings(q, rs \ {top})

StableByRating(q) == StableByRatings(q, {x.rating : x \in Range(q)})

\* C4: the sequence SearchMultipleTypes returns is sorted by rating in
\* non-increasing order.
C4_SortedByRating ==
    aggPc = "ret" =>
       \A i, j \in DOMAIN idgames : i < j => idgames[i].rating >= idgames[j].rating

\* C4 witness: the call returned two or more records whose concatenation was
\* not in rating order.
C4_Witness ==
    /\ aggPc = "ret"
    /\ Len(idgames) >= 2
    /\ \E i, j \in DOMAIN ReturnedConcat :
          i < j /\ ReturnedConcat[i].rating < ReturnedConcat[j].rating

\* C5 as claimed: the sort is stable, the result is the concatenation of the
\* per-field results ordered by rating with the order of equal ratings kept.
C5_StableOrder ==
    aggPc = "ret" => idgames = StableByRating(ReturnedConcat)

\* C5 amended: the sort is not stable; for every rating the returned entries
\* of that rating are those of the concatenation of the slices the per-field
\* Search calls returned, each as often as there, in an order that need not
\* be the order of the concatenation.
C5_EqualRatingsSameEntries ==
    aggPc = "ret" =>
       \A r \in {x.rating : x \in Range(idgames) \cup Range(ReturnedConcat)} :
          IsPermutation(WithRating(idgames, r), WithRating(ReturnedConcat, r))

\* C5 witness: every Search succeeded and the result has two entries of equal
\* rating in the reverse of their order in the concatenation.
C5_Witness ==
    /\ aggPc = "ret"
    /\ \A k \in DOMAIN fieldLog : fieldLog[k].err = NilErr
    /\ idgames # StableByRating(ReturnedConcat)

\* C6 as claimed: a field type whose Search returned an error contributes no
\* record and does not end the loop: the records of the result are exactly
\* those of the field types whose Search returned no error.
C6_FailedFieldContributesNothing ==
    aggPc = "ret" =>
       /\ Len(fieldLog) = Len(searchTypes)
       /\ Range(idgames) = Range(SucceededConcat)

\* C7 as claimed: the result is a permutation of the concatenation of the
\* successful per-field results, its length the sum of their lengths.
C7_PermutationOfSucceeded ==
    aggPc = "ret" =>
       /\ Len(idgames) = Len(SucceededConcat)
       /\ IsPermutation(idgames, SucceededConcat)

----------------------------------------------------------------------------
(* Claims about the browser and the detail backfill, checked under Spec *)

\* C2: when a newer result list has replaced the list a backfill goroutine
\* was started for, nothing that goroutine writes shows in the new list:
\* every entry of browser.idgames, and of the slice the selection-changed
\* closure captured, is as the search returned it or as that list's own
\* goroutine wrote it.
C2_StaleBackfillNotObservable ==
    \A cur \in {browserIdgames, handlerList} \ {0} :
       \A i \in DOMAIN heap[cur] :
          /\ writtenBy[cur][i] \in {0, cur}
          /\ writtenBy[cur][i] = 0 => heap[cur][i] = orig[cur][i]

\* C2 witness: the goroutine of the first list has written an entry after the
\* second list became browser.idgames.
C2_Witness ==
    /\ staleWrite
    /\ browserIdgames = 2
    /\ handlerList = 2
    /\ \E i \in DOMAIN heap[1] : writtenBy[1][i] = 1

\* C3: when updateGameDetails has finished a list, Get was called once for
\* every entry, with that entry's id and in order; each entry whose Get
\* returned no error is the record Get returned, each entry whose Get failed
\* is as the search returned it, and the list has its length.
C3_BackfillPerEntry ==
    \A a \in DOMAIN wk :
       wk[a].pc = "done" =>
          /\ Len(heap[a]) = Len(orig[a])
          /\ Len(fetchLog[a]) = Len(orig[a])
          /\ \A i \in DOMAIN orig[a] :
                /\ fetchLog[a][i].id = orig[a][i].id
                /\ heap[a][i] = IF fetchLog[a][i].err = NilErr
                                   THEN fetchLog[a][i].g
                                   ELSE orig[a][i]

\* C3 witness: a finished list of two entries, the first Get failed and the
\* second entry was replaced.
C3_Witness ==
    \E a \in DOMAIN wk :
       /\ wk[a].pc = "done"
       /\ Len(orig[a]) = 2
       /\ fetchLog[a][1].err # NilErr
       /\ heap[a][1] = orig[a][1]
       /\ heap[a][2] # orig[a][2]

\* The slices whose entries the UI goroutine reads: b.idgames (Enter), the
\* slice of the selection-changed closure, and in populateList its argument.
UISlices ==
    ({browserIdgames, handlerList} \ {0})
    \cup (IF uiPc = "populate" THEN {uiList} ELSE {})

\* C15 as claimed: the entries of the result list are read and written on the
\* UI goroutine only: no other goroutine has assigned, or is about to assign,
\* an entry of a slice the UI goroutine reads.
C15_EntriesOnUIGoroutineOnly ==
    /\ \A a \in DOMAIN wk :
          wk[a].pc = "store" => BackfillTarget(a) \notin UISlices
    /\ \A s \in UISlices : \A i \in DOMAIN heap[s] : writtenBy[s][i] = 0

\* C16 as claimed: the backfill of a request assigns an entry of the
\* request's list only after populateList has completed for that list, that
\* is after it, or a later list, has become b.idgames.
C16_ReplacedBeforeBackfillWrites ==
    \A a \in DOMAIN heap :
       (\E i \in DOMAIN heap[a] : writtenBy[a][i] # 0) => browserIdgames >= a

\* C17 as claimed: every step that replaces the result list (populateList
\* assigns b.idgames) leaves the selection on no entry (row 0, the header);
\* every step that assigns an entry (the backfill) leaves the selection, the
\* length of each list and the ids of its entries in their order as they were.
C17_SelectionResetOnReplace ==
    [][/\ browserIdgames' # browserIdgames => selectedRow' = 0
       /\ (heap' # heap /\ Len(heap') = Len(heap)) =>
             /\ selectedRow' = selectedRow
             /\ \A a \in DOMAIN heap :
                   /\ Len(heap'[a]) = Len(heap[a])
                   /\ \A i \in DOMAIN heap[a] : heap'[a][i].id = heap[a][i].id]_vars

----------------------------------------------------------------------------
(* Claims about the callbacks and the download prompt, checked under         *)
(* BrowserSpec                                                               *)

\* C14 as claimed: with a post-download callback registered, every download
\* started from the browser that has finished without an error was followed
\* by one call of the callback.
C14_PostDownloadCallbackInvoked ==
    (postDownloadCallback /\ uiPc # "download") =>
       Len(postDownloadLog) = downloadsOk

\* C18 as claimed: with no confirm callback, each press of "Download" makes
\* one call of DownloadTo; its receiver is the copy the page holds, which is
\* the record the row held when Enter was pressed, whatever was assigned to
\* the entry or to b.idgames since; the page stays while the call runs, and
\* when the UI goroutine is back in its loop no call is under way.
C18_DownloadsRecordAtEnter ==
    /\ downloadCalls = accepts
    /\ pageDLSure # NoPage =>
          pageDLSure.g \in {pageDLSure.before, pageDLSure.after}
    /\ uiPc = "download" =>
          /\ pageDLSure # NoPage
          /\ dlReceiver = pageDLSure.g
    /\ uiPc = "loop" => dlReceiver = ZeroIdgame

\* C19: the step of the button "Cancel" removes the page and changes nothing
\* else: no call of DownloadTo is made, nothing of DownloadTo's state (GETs
\* to mirrors, the file) changes, and b.idgames, every entry of every list,
\* the table and the selection are as before.
C19_DeclineOnlyRemovesPage ==
    [][(uiPc = "loop" /\ pageDLSure # NoPage /\ pageDLSure' = NoPage) =>
          /\ UNCHANGED <<dlVars, brVars>>
          /\ UNCHANGED <<accepts, downloadCalls, dlReceiver, downloadsOk,
                         confirmArg, postDownloadLog>>]_vars

\* C19 witness: the page was declined with the selection on an entry, a
\* backfill under way, no download ever started and no file there.
C19_Witness ==
    /\ declined
    /\ pageDLSure = NoPage
    /\ selectedRow = 1
    /\ \E a \in DOMAIN wk : wk[a].pc = "store"
    /\ downloadCalls = 0
    /\ attempts = <<>>
    /\ ~fileExists

\* C20 as claimed: the UI goroutine is in no state inside a network call:
\* neither inside SearchMultipleTypes or LatestFiles nor inside DownloadTo.
C20_NoNetworkOnUIGoroutine ==
    uiPc \notin {"net", "download"}

\* C21 as claimed: no Enter event evaluates b.idgames[r-1] with r past the end
\* of the current list (the index expression never panics), and every row a
\* selection-changed event can name is an index of the slice its closure
\* captured, after any sequence of searches.
C21_ReadsWithinBounds ==
    /\ uiPc # "panic"
    /\ handlerList # 0 => tableRows = Len(heap[handlerList])

\* C22 as claimed: once a download that ended with the exhausted error has
\* returned to the browser, a message about it has been shown to the user;
\* messages are shown for failed searches and downloads only, none for a
\* failed Get of the backfill, whose entry stays as the search returned it.
C22_ErrorsAreShown ==
    /\ (uiPc = "loop" /\ dlErr = ErrUnableToDownload) =>
          \E k \in DOMAIN messages :
             messages[k] = [action |-> "download", err |-> dlErr]
    /\ \A k \in DOMAIN messages : messages[k].action \in {"search", "download"}
    /\ \A a \in DOMAIN fetchLog : \A i \in DOMAIN fetchLog[a] :
          fetchLog[a][i].err # NilErr => heap[a][i] = orig[a][i]

====
